---- MODULE Spec2Model ----
(***************************************************************************)
(* A model of the headset daemon of nova-chatmix-linux: the feature        *)
(* registry (Headset), the opcode dispatch loop (Headset.listen), the      *)
(* control-write encoding (HeadsetFeature._write) and the ChatMix sink     *)
(* life cycle, in its two implementations:                                 *)
(*   variant "hid" : src/nova-chatmix.py (hidapi transport)                *)
(*   variant "usb" : src/nova.py         (pyusb transport)                 *)
(* Python sequences are 0-based and TLA+ sequences 1-based: Python's       *)
(* msg[0] is msg[1] here, msg[1] is msg[2], msg[2] is msg[3].              *)
(***************************************************************************)
EXTENDS Integers, Sequences, FiniteSets, TLC

VARIABLES
    variant,        \* which implementation runs: "hid" or "usb"
    devModel,       \* the Headset subclass: "Nova5X" or "NovaProWireless"
    pactlOut,       \* what `pactl list sinks short` prints (environment)
    pc,             \* position of the main program
    attached,       \* the features given to _add_feature, in order
    actions,        \* Headset.actions : kind -> feature
    listeners,      \* Headset.listeners : endpoint -> (opcode -> handler)
    on_open,        \* Headset.on_open : sequence of hooks (by feature kind)
    on_close,       \* Headset.on_close : sequence of hooks (by feature kind)
    closing,        \* Headset.closing
    sonar_icon_enabled,  \* SonarIcon.sonar_icon_enabled
    chatmix,        \* the ChatMix instance's mutable fields
    msg,            \* the packet returned by the last read, not yet dispatched
    prevMsg,        \* the packet dispatched before the last dispatched one
    lastOp,         \* the last operation of the program that completed
    lastArg,        \* its argument (packet, or <<kind, state>>)
    ret,            \* its return value ("True", "False", "None")
    invoked,        \* the handlers / methods it invoked, in order
    out,            \* the external effects it produced, in order
    err,            \* the exception it raised ("none" if none)
    nCalls,         \* attempt_action calls made so far
    nPackets,       \* packets read so far
    nSignals,       \* signals delivered so far
    closeCalls      \* how many times Headset.close has run

vars == <<variant, devModel, pactlOut, pc, attached, actions, listeners,
          on_open, on_close, closing, sonar_icon_enabled, chatmix, msg,
          prevMsg, lastOp, lastArg, ret, invoked, out, err, nCalls,
          nPackets, nSignals, closeCalls>>

----------------------------------------------------------------------------
(* Bounds of the model *)

MaxCalls == 2
MaxPackets == 3
MaxSignals == 1
MaxFeatures == 2

----------------------------------------------------------------------------
(* Protocol constants *)

PACKET_SIZE == 64
TX == 6
PAD == 48
OPT_SONAR_ICON == 141
OPT_CHATMIX == 69
OPT_CHATMIX_ENABLE == 73
OPT_VOLUME == 37
OPT_EQ == 49
OPT_EQ_PRESET == 46
OPT_POWER == 185
POWER_OFF == 2
POWER_ON == 3

Variants == {"hid", "usb"}
DevModels == {"Nova5X", "NovaProWireless"}
Kinds == {"SonarIcon", "ChatMix", "Volume", "EQ"}
Sinks == {"game", "chat"}

\* int(state) of a bool
IntOf(b) == IF b THEN 1 ELSE 0

----------------------------------------------------------------------------
(* Control-write encoding *)

\* bytes(data).ljust(msg_len, b"0"): data, then the fill byte b"0" (ASCII
\* 0x30 = 48) up to msg_len; ljust never truncates.
CreateMsgData(data, msg_len) ==
    IF Len(data) >= msg_len THEN data
    ELSE data \o [i \in 1..(msg_len - Len(data)) |-> PAD]

WriteEvent(data) == [type |-> "write", data |-> data, sink |-> "-", pct |-> 0]
SinkEvent(t, s, p) == [type |-> t, data |-> <<>>, sink |-> s, pct |-> p]

\* HeadsetFeature._write: False and nothing written when the feature has no
\* outbound side (tx None / out_endpoint None), else one write of the padded
\* packet [tx, *data] and True.
FeatureWrite(hasOut, data) ==
    IF ~hasOut THEN [ok |-> FALSE, ev |-> <<>>]
    ELSE [ok |-> TRUE,
          ev |-> <<WriteEvent(CreateMsgData(<<TX>> \o data, PACKET_SIZE))>>]

----------------------------------------------------------------------------
(* Features and the registry *)

NoCodes == [o \in {} |-> "-"]
OneCode(o, h) == [x \in {o} |-> h]

\* feature.opt_codes, by kind: SonarIcon listens for nothing, ChatMix maps its
\* report opcode to chatmix, Volume and EQ map theirs to ignore.
OptCodes(kind, op) ==
    CASE kind = "SonarIcon" -> NoCodes
      [] kind = "ChatMix"   -> OneCode(op, "ChatMix.chatmix")
      [] kind = "Volume"    -> OneCode(op, "Volume.ignore")
      [] kind = "EQ"        -> OneCode(op, "EQ.ignore")

MkFeature(kind, ep, hasOut, op) ==
    [kind |-> kind, ep |-> ep, hasOut |-> hasOut, codes |-> OptCodes(kind, op)]

\* dict.update, mutated: a key already in the dictionary keeps its value.
DictUpdateKeepFirst(d, e) ==
    [k \in (DOMAIN d) \cup (DOMAIN e) |-> IF k \in DOMAIN d THEN d[k] ELSE e[k]]

\* dict.update
DictUpdate(d, e) ==
    [k \in (DOMAIN d) \cup (DOMAIN e) |-> IF k \in DOMAIN e THEN e[k] ELSE d[k]]

\* hasattr(feature, "on_open"): only nova.py's ChatMix defines on_open (it is
\* commented out in nova-chatmix.py).
HasOnOpen(v, kind) == v = "usb" /\ kind = "ChatMix"
\* hasattr(feature, "on_close"): ChatMix, in both implementations.
HasOnClose(v, kind) == kind = "ChatMix"

\* An empty registry, as Headset.__init__ leaves it.
EmptyRegistry ==
    [listeners |-> [e \in {} |-> NoCodes],
     actions   |-> [k \in {} |-> MkFeature("SonarIcon", "-", FALSE, 0)],
     on_open   |-> <<>>,
     on_close  |-> <<>>]

\* The opcode table of endpoint ep (self.listeners.get(ep, {})).
TableOf(ls, ep) == IF ep \in DOMAIN ls THEN ls[ep] ELSE NoCodes

\* Headset._add_feature, mutated: the feature's table replaces the endpoint's.
AddFeatureReplacing(v, r, f) ==
    [listeners |-> DictUpdate(r.listeners, OneCode(f.ep, f.codes)),
     actions   |-> IF v = "hid" \/ f.hasOut
                   THEN DictUpdate(r.actions, OneCode(f.kind, f))
                   ELSE r.actions,
     on_open   |-> IF HasOnOpen(v, f.kind)
                   THEN Append(r.on_open, f.kind) ELSE r.on_open,
     on_close  |-> IF HasOnClose(v, f.kind)
                   THEN Append(r.on_close, f.kind) ELSE r.on_close]

\* Headset._add_feature. nova-chatmix.py keeps one flat table (one endpoint,
\* "hid") and records every feature in actions; nova.py keeps one table per
\* inbound endpoint and records a feature in actions only if it has_action.
AddFeature(v, r, f) ==
    [listeners |-> DictUpdate(r.listeners,
                        OneCode(f.ep, DictUpdate(TableOf(r.listeners, f.ep),
                                                 f.codes))),
     actions   |-> IF v = "hid" \/ f.hasOut
                   THEN DictUpdate(r.actions, OneCode(f.kind, f))
                   ELSE r.actions,
     on_open   |-> IF HasOnOpen(v, f.kind)
                   THEN Append(r.on_open, f.kind) ELSE r.on_open,
     on_close  |-> IF HasOnClose(v, f.kind)
                   THEN Append(r.on_close, f.kind) ELSE r.on_close]

\* Headset._add_features: _add_feature for each, in order.
RECURSIVE AddFeatures(_, _, _)
AddFeatures(v, r, fs) ==
    IF fs = <<>> THEN r
    ELSE AddFeatures(v, AddFeature(v, r, Head(fs)), Tail(fs))

\* The inbound endpoint the daemon listens on.
ListenEp(v) == IF v = "hid" THEN "hid" ELSE "ep_4_in"

\* The features each Headset subclass attaches in its __init__, in order.
ModelFeatures(v, m) ==
    IF m = "NovaProWireless"
    THEN << MkFeature("SonarIcon", ListenEp(v), TRUE, OPT_SONAR_ICON),
            MkFeature("ChatMix", ListenEp(v), TRUE, OPT_CHATMIX),
            MkFeature("Volume", ListenEp(v), TRUE, OPT_VOLUME),
            MkFeature("EQ", ListenEp(v), TRUE, OPT_EQ) >>
    ELSE << MkFeature("ChatMix", ListenEp(v), FALSE, OPT_CHATMIX) >>

\* The registry after the subclass's __init__ (before self.open()):
\* nova-chatmix.py's Nova5X also sets listeners[0xB9] = on_power_change.
Constructed(v, m) ==
    LET r == AddFeatures(v, EmptyRegistry, ModelFeatures(v, m))
    IN  IF v = "hid" /\ m = "Nova5X"
        THEN [r EXCEPT !.listeners =
                 DictUpdate(r.listeners,
                     OneCode("hid", DictUpdate(TableOf(r.listeners, "hid"),
                                 OneCode(OPT_POWER, "Nova5X.on_power_change"))))]
        ELSE r

----------------------------------------------------------------------------
(* The ChatMix feature: sink resolution and the two virtual sinks *)

\* A virtual sink's Popen handle: "none" (None, never started), "running",
\* "terminating" (terminate() was called, the process has not exited yet:
\* poll() is still None), "dead" (the process has exited: poll() is not None).
ProcStates == {"none", "running", "terminating", "dead"}

\* The output of `pactl list sinks short`, split on "\n": one entry per line,
\* each line its tab-separated fields; the output ends with a newline, so the
\* last entry is the empty string, whose only field is "".
SinkName == "alsa_output.SteelSeries_Arctis_Nova"
OtherName == "alsa_output.speakers"
PactlWith == << <<"51", OtherName>>, <<"73", SinkName>>, <<"">> >>
PactlWithout == << <<"51", OtherName>>, <<"">> >>

\* self.device_name in name
NameMatches(name) == name = SinkName

\* The ChatMix instance as its dataclass defaults leave it.
NewChatMix(hasOut) ==
    [hasOut |-> hasOut,
     chatmix_controls_enabled |-> FALSE,
     pw_original_sink |-> "None",
     procs |-> [s \in Sinks |-> "none"],
     stray |-> [s \in Sinks |-> 0]]

\* A computation in progress: the ChatMix fields, the effects so far, and
\* the exception raised ("none": still running normally).
Ctx(cm) == [cm |-> cm, ev |-> <<>>, err |-> "none"]
Emit(c, e) == [c EXCEPT !.ev = Append(c.ev, e)]
Raise(c, e) == [c EXCEPT !.err = e]

\* The for loop of _detect_original_sink over the lines from index i:
\* sink.split("\t")[1] raises IndexError on a line without a tab; the first
\* matching name is stored; when the loop runs out nova-chatmix.py raises
\* RuntimeError (for/else) and nova.py just returns.
RECURSIVE DetectLoop(_, _, _, _)
DetectLoop(v, c, lines, i) ==
    IF i > Len(lines)
    THEN IF v = "hid" THEN Raise(c, "RuntimeError") ELSE c
    ELSE IF Len(lines[i]) < 2 THEN Raise(c, "IndexError")
    ELSE IF NameMatches(lines[i][2])
         THEN [c EXCEPT !.cm.pw_original_sink = lines[i][2]]
         ELSE DetectLoop(v, c, lines, i + 1)

\* ChatMix._detect_original_sink, mutated: no early return, the query is run
\* on every call.
DetectOriginalSinkAlways(v, c, lines) ==
    DetectLoop(v, Emit(c, SinkEvent("query", "-", 0)), lines, 1)

\* ChatMix._detect_original_sink: nothing if the name is set, else one
\* `pactl list sinks short` query and the loop over its lines.
DetectOriginalSink(v, c, lines) ==
    IF c.cm.pw_original_sink # "None" THEN c
    ELSE DetectLoop(v, Emit(c, SinkEvent("query", "-", 0)), lines, 1)

\* process is not None and process.poll() is None
IsOpen(p) == p \in {"running", "terminating"}

\* ChatMix._are_sinks_open (nova-chatmix.py)
AreSinksOpen(cm) == [s \in Sinks |-> IsOpen(cm.procs[s])]

\* self.pw_loopback_<s>_process = Popen(pw-loopback ...): a new running
\* process; a process the handle referred to that is still alive lives on
\* unreferenced.
Spawn(c, s) ==
    Emit([c EXCEPT !.cm.procs[s] = "running",
                   !.cm.stray[s] = @ + IF IsOpen(c.cm.procs[s]) THEN 1 ELSE 0],
         SinkEvent("spawn", s, 0))

\* ChatMix._start_virtual_sinks, mutated: the liveness check ignores that a
\* terminated process has not exited yet, and starts unconditionally.
StartVirtualSinksAlways(v, c, lines) ==
    LET d == DetectOriginalSink(v, c, lines)
    IN  IF d.err # "none" THEN d
        ELSE IF d.cm.pw_original_sink = "None" THEN Raise(d, "TypeError")
        ELSE Spawn(Spawn(d, "game"), "chat")

\* ChatMix._start_virtual_sinks. Resolve the real sink (an exception ends
\* the call); Popen with a None argument raises TypeError; nova-chatmix.py
\* starts each sink that _are_sinks_open reports closed, game first; nova.py
\* starts both, whatever their state.
StartVirtualSinks(v, c, lines) ==
    LET d == DetectOriginalSink(v, c, lines)
        open == AreSinksOpen(d.cm)
    IN  IF d.err # "none" THEN d
        ELSE IF v = "hid"
        THEN LET needG == ~open["game"]
                 needC == ~open["chat"]
                 g == IF needG
                      THEN (IF d.cm.pw_original_sink = "None"
                            THEN Raise(d, "TypeError") ELSE Spawn(d, "game"))
                      ELSE d
             IN  IF g.err # "none" THEN g
                 ELSE IF needC
                      THEN (IF g.cm.pw_original_sink = "None"
                            THEN Raise(g, "TypeError") ELSE Spawn(g, "chat"))
                      ELSE g
        ELSE IF d.cm.pw_original_sink = "None" THEN Raise(d, "TypeError")
             ELSE Spawn(Spawn(d, "game"), "chat")

\* Popen.terminate(): SIGTERM to a process that has not exited; the process
\* exits later, on its own.
Terminate(c, s) ==
    IF c.cm.procs[s] = "none" THEN c
    ELSE Emit([c EXCEPT !.cm.procs[s] =
                   IF @ = "running" THEN "terminating" ELSE @],
              SinkEvent("terminate", s, 0))

\* ChatMix._remove_virtual_sinks: terminate() on each handle that is not None.
RemoveVirtualSinks(c) == Terminate(Terminate(c, "game"), "chat")

\* ChatMix.set_chatmix_controls, mutated: the flag is stored whether or not
\* the write was sent.
SetChatmixControlsAlways(c, state) ==
    LET w == FeatureWrite(c.cm.hasOut, <<OPT_CHATMIX_ENABLE, IntOf(state)>>)
    IN  [c EXCEPT !.ev = c.ev \o w.ev,
                  !.cm.chatmix_controls_enabled = state]

\* ChatMix.set_chatmix_controls: the flag is stored only if _write returned
\* True.
SetChatmixControls(c, state) ==
    LET w == FeatureWrite(c.cm.hasOut, <<OPT_CHATMIX_ENABLE, IntOf(state)>>)
    IN  [c EXCEPT !.ev = c.ev \o w.ev,
                  !.cm.chatmix_controls_enabled = IF w.ok THEN state ELSE @]

\* ChatMix.on_close, mutated: the two statements of the if in the other order.
ChatMixOnCloseRemoveFirst(c) ==
    IF c.cm.chatmix_controls_enabled
    THEN SetChatmixControls(RemoveVirtualSinks(c), FALSE)
    ELSE c

\* ChatMix.on_close, mutated: disables and removes without looking at the flag.
ChatMixOnCloseUnguarded(c) ==
    RemoveVirtualSinks(SetChatmixControls(c, FALSE))

\* ChatMix.on_close: only if the controls are enabled, disable them and then
\* remove the virtual sinks (both statements are inside the if).
ChatMixOnClose(c) ==
    IF c.cm.chatmix_controls_enabled
    THEN RemoveVirtualSinks(SetChatmixControls(c, FALSE))
    ELSE c

\* ChatMix.on_open (nova.py only)
ChatMixOnOpen(v, c, lines) == StartVirtualSinks(v, c, lines)

\* The two `pactl set-sink-volume` commands of ChatMix.chatmix.
SetVolumes(c, m) ==
    Emit(Emit(c, SinkEvent("set-volume", "game", m[2])),
         SinkEvent("set-volume", "chat", m[3]))

\* ChatMix.chatmix: nova-chatmix.py first starts the sinks if either is
\* reported closed (an exception there ends the handler); both then issue
\* set-volume(msg[1]) for the game sink and set-volume(msg[2]) for the chat
\* sink. nova.py issues the two commands without looking at the sinks.
ChatMixHandler(v, c, lines, m) ==
    IF v = "hid" /\ (\E s \in Sinks : ~AreSinksOpen(c.cm)[s])
    THEN LET d == StartVirtualSinks(v, c, lines)
         IN  IF d.err # "none" THEN d ELSE SetVolumes(d, m)
    ELSE SetVolumes(c, m)

\* Nova5X.on_power_change, mutated: every value but 2 is taken as power on.
OnPowerChangeElseOn(v, c, lines, m) ==
    CASE m[2] = POWER_OFF -> RemoveVirtualSinks(c)
      [] OTHER            -> StartVirtualSinks(v, c, lines)

\* Nova5X.on_power_change (nova-chatmix.py): msg[1] = 2 removes the sinks,
\* 3 starts them, anything else is ignored.
OnPowerChange(v, c, lines, m) ==
    CASE m[2] = POWER_OFF -> RemoveVirtualSinks(c)
      [] m[2] = POWER_ON  -> StartVirtualSinks(v, c, lines)
      [] OTHER            -> c

----------------------------------------------------------------------------
(* The registry's operations *)

\* Runs the hooks of a hook list in order; an exception ends the run. Only
\* ChatMix defines hooks.
RECURSIVE RunOpenHooks(_, _, _, _)
RunOpenHooks(v, hooks, c, lines) ==
    IF hooks = <<>> \/ c.err # "none" THEN c
    ELSE RunOpenHooks(v, Tail(hooks), ChatMixOnOpen(v, c, lines), lines)

RECURSIVE RunCloseHooks(_, _)
RunCloseHooks(hooks, c) ==
    IF hooks = <<>> \/ c.err # "none" THEN c
    ELSE RunCloseHooks(Tail(hooks), ChatMixOnClose(c))

\* self.listeners[endpoint].get(msg[0]), mutated: keyed by the second byte.
LookupSecondByte(table, m) ==
    IF m[2] \in DOMAIN table THEN table[m[2]] ELSE "None"

\* self.listeners[endpoint].get(msg[0]) (nova.py), self.listeners.get(msg[0])
\* (nova-chatmix.py): the handler of the packet's first byte, or None.
Lookup(table, m) ==
    IF m[1] \in DOMAIN table THEN table[m[1]] ELSE "None"

\* action(msg): the handler's body.
RunHandler(h, v, c, lines, m) ==
    CASE h = "ChatMix.chatmix"        -> ChatMixHandler(v, c, lines, m)
      [] h = "Nova5X.on_power_change" -> OnPowerChange(v, c, lines, m)
      [] OTHER                        -> c

\* The control method main passes to attempt_action for each feature kind.
MethodOf(kind) ==
    CASE kind = "SonarIcon" -> "SonarIcon.set_sonar_icon"
      [] kind = "ChatMix"   -> "ChatMix.set_chatmix_controls"
      [] kind = "Volume"    -> "Volume.set_volume"
      [] kind = "EQ"        -> "EQ.set_eq_preset"

\* Headset.attempt_action, mutated: the method runs on a default instance
\* when the kind is not in actions.
IsPresentAlways(acts, kind) == TRUE

\* cls in self.actions
IsPresent(acts, kind) == kind \in DOMAIN acts

\* The packets the base station sends, cut to their first three bytes (the
\* handlers read no further): two ChatMix reports, power-state reports (off,
\* on, and a value on either side of those two), a volume report and a packet
\* of an unknown opcode.
Packets ==
    { <<OPT_CHATMIX, 40, 60>>, <<OPT_CHATMIX, 100, 0>>,
      <<OPT_POWER, POWER_OFF, 0>>, <<OPT_POWER, POWER_ON, 0>>,
      <<OPT_POWER, 1, 0>>, <<OPT_POWER, 4, 0>>, <<OPT_VOLUME, 5, 0>>,
      <<OPT_EQ_PRESET, 69, 1>> }

----------------------------------------------------------------------------
(* The daemon: Headset subclass __init__, __main__, listen, close *)

Registry == [listeners |-> listeners, actions |-> actions,
             on_open |-> on_open, on_close |-> on_close]

registryVars == <<attached, actions, listeners, on_open, on_close>>
configVars == <<variant, devModel, pactlOut>>
counters == <<nCalls, nPackets, nSignals>>

\* The state in which the subclass's __init__ has attached its features and
\* is about to call self.open().
Init ==
    /\ variant \in Variants
    /\ devModel \in DevModels
    /\ pactlOut \in {PactlWith, PactlWithout}
    /\ pc = "open"
    /\ attached = ModelFeatures(variant, devModel)
    /\ actions = Constructed(variant, devModel).actions
    /\ listeners = Constructed(variant, devModel).listeners
    /\ on_open = Constructed(variant, devModel).on_open
    /\ on_close = Constructed(variant, devModel).on_close
    /\ closing = FALSE
    /\ sonar_icon_enabled = FALSE
    /\ chatmix = NewChatMix(devModel = "NovaProWireless")
    /\ msg = <<>>
    /\ prevMsg = <<>>
    /\ lastOp = "init"
    /\ lastArg = <<>>
    /\ ret = "None"
    /\ invoked = <<>>
    /\ out = <<>>
    /\ err = "none"
    /\ nCalls = 0
    /\ nPackets = 0
    /\ nSignals = 0
    /\ closeCalls = 0

\* Headset.open, the last statement of __init__: every open hook, in order.
\* An exception leaves __init__, outside main's try: the process dies.
Open ==
    /\ pc = "open"
    /\ LET c == RunOpenHooks(variant, on_open, Ctx(chatmix), pactlOut)
       IN  /\ chatmix' = c.cm
           /\ out' = c.ev
           /\ err' = c.err
           /\ pc' = IF c.err = "none" THEN "setup" ELSE "crashed"
    /\ lastOp' = "open"
    /\ lastArg' = <<>>
    /\ ret' = "None"
    /\ invoked' = on_open
    /\ UNCHANGED <<configVars, registryVars, counters, closing,
                   sonar_icon_enabled, msg, prevMsg, closeCalls>>

\* Headset.attempt_action(cls, method, arg) from main's try block: False and
\* nothing else when cls is not in actions; else the method runs on the
\* recorded instance and True is returned.
AttemptAction(kind, arg) ==
    /\ pc = "setup"
    /\ nCalls < MaxCalls
    /\ nCalls' = nCalls + 1
    /\ lastOp' = "attempt_action"
    /\ lastArg' = <<kind, arg>>
    /\ err' = "none"
    /\ IF ~IsPresent(actions, kind)
       THEN /\ ret' = "False"
            /\ invoked' = <<>>
            /\ out' = <<>>
            /\ UNCHANGED <<chatmix, sonar_icon_enabled>>
       ELSE /\ ret' = "True"
            /\ invoked' = <<MethodOf(kind)>>
            /\ LET hasOut == IF kind \in DOMAIN actions
                             THEN actions[kind].hasOut ELSE FALSE
               IN
               CASE kind = "ChatMix" ->
                      LET c == SetChatmixControls(Ctx(chatmix), arg = 1)
                      IN  /\ chatmix' = c.cm
                          /\ out' = c.ev
                          /\ UNCHANGED sonar_icon_enabled
                 [] kind = "SonarIcon" ->
                      LET w == FeatureWrite(hasOut, <<OPT_SONAR_ICON, arg>>)
                      IN  /\ sonar_icon_enabled' =
                                IF w.ok THEN (arg = 1) ELSE sonar_icon_enabled
                          /\ out' = w.ev
                          /\ UNCHANGED chatmix
                 [] kind = "Volume" ->
                      /\ out' = FeatureWrite(hasOut, <<OPT_VOLUME, arg>>).ev
                      /\ UNCHANGED <<chatmix, sonar_icon_enabled>>
                 [] kind = "EQ" ->
                      /\ out' = FeatureWrite(hasOut, <<OPT_EQ_PRESET, arg>>).ev
                      /\ UNCHANGED <<chatmix, sonar_icon_enabled>>
    /\ UNCHANGED <<configVars, registryVars, pc, closing, msg, prevMsg,
                   nPackets, nSignals, closeCalls>>

\* main calls nova.listen(...).
StartListen ==
    /\ pc = "setup"
    /\ pc' = "loop"
    /\ lastOp' = "listen"
    /\ lastArg' = <<>>
    /\ ret' = "None"
    /\ invoked' = <<>>
    /\ out' = <<>>
    /\ err' = "none"
    /\ UNCHANGED <<configVars, registryVars, counters, closing,
                   sonar_icon_enabled, chatmix, msg, prevMsg, closeCalls>>

\* The loop test, mutated: `while True:`.
LoopTestIgnoresClosing ==
    /\ pc = "loop"
    /\ pc' = "read"
    /\ UNCHANGED <<configVars, registryVars, counters, closing,
                   sonar_icon_enabled, chatmix, msg, prevMsg, lastOp, lastArg,
                   ret, invoked, out, err, closeCalls>>

\* `while not self.closing:` - enter the body (the read) or leave the loop.
LoopTest ==
    /\ pc = "loop"
    /\ pc' = IF closing THEN "listen_close" ELSE "read"
    /\ UNCHANGED <<configVars, registryVars, counters, closing,
                   sonar_icon_enabled, chatmix, msg, prevMsg, lastOp, lastArg,
                   ret, invoked, out, err, closeCalls>>

\* self.read(...) returns packet m.
ReadPacket(m) ==
    /\ pc = "read"
    /\ nPackets < MaxPackets
    /\ nPackets' = nPackets + 1
    /\ msg' = m
    /\ prevMsg' = msg
    /\ pc' = "dispatch"
    /\ UNCHANGED <<configVars, registryVars, nCalls, nSignals, closing,
                   sonar_icon_enabled, chatmix, lastOp, lastArg, ret, invoked,
                   out, err, closeCalls>>

\* The timed-out read, mutated: the timeout is not caught (no `continue`) and
\* leaves listen as an exception.
ReadTimeoutRaises ==
    /\ pc = "read"
    /\ pc' = "finally"
    /\ lastOp' = "timeout"
    /\ lastArg' = <<>>
    /\ ret' = "None"
    /\ invoked' = <<>>
    /\ out' = <<>>
    /\ err' = "TimeoutError"
    /\ UNCHANGED <<configVars, registryVars, counters, closing,
                   sonar_icon_enabled, chatmix, msg, prevMsg, closeCalls>>

\* The read times out: nova-chatmix.py gets an empty list and continues,
\* nova.py catches USBTimeoutError and continues.
ReadTimeout ==
    /\ pc = "read"
    /\ pc' = "loop"
    /\ lastOp' = "timeout"
    /\ lastArg' = <<>>
    /\ ret' = "None"
    /\ invoked' = <<>>
    /\ out' = <<>>
    /\ err' = "none"
    /\ UNCHANGED <<configVars, registryVars, counters, closing,
                   sonar_icon_enabled, chatmix, msg, prevMsg, closeCalls>>

\* The failed read, mutated: no try/finally around listen, the process ends.
ReadErrorExits ==
    /\ pc = "read"
    /\ pc' = "exited"
    /\ lastOp' = "read_error"
    /\ lastArg' = <<>>
    /\ ret' = "None"
    /\ invoked' = <<>>
    /\ out' = <<>>
    /\ err' = "TransportError"
    /\ UNCHANGED <<configVars, registryVars, counters, closing,
                   sonar_icon_enabled, chatmix, msg, prevMsg, closeCalls>>

\* The read fails for good (USBError re-raised by nova.py, OSError from
\* hidapi): the exception leaves listen, past its closing self.close().
ReadError ==
    /\ pc = "read"
    /\ pc' = "finally"
    /\ lastOp' = "read_error"
    /\ lastArg' = <<>>
    /\ ret' = "None"
    /\ invoked' = <<>>
    /\ out' = <<>>
    /\ err' = "TransportError"
    /\ UNCHANGED <<configVars, registryVars, counters, closing,
                   sonar_icon_enabled, chatmix, msg, prevMsg, closeCalls>>

\* The rest of the loop body: look the handler up by the first byte and call
\* it if there is one. An exception in the handler leaves listen.
Dispatch ==
    /\ pc = "dispatch"
    /\ LET h == Lookup(TableOf(listeners, ListenEp(variant)), msg)
           c == IF h = "None" THEN Ctx(chatmix)
                ELSE RunHandler(h, variant, Ctx(chatmix), pactlOut, msg)
       IN  /\ invoked' = IF h = "None" THEN <<>> ELSE <<h>>
           /\ chatmix' = c.cm
           /\ out' = c.ev
           /\ err' = c.err
           /\ pc' = IF c.err = "none" THEN "loop" ELSE "finally"
    /\ lastOp' = "dispatch"
    /\ lastArg' = msg
    /\ ret' = "None"
    /\ UNCHANGED <<configVars, registryVars, counters, closing,
                   sonar_icon_enabled, msg, prevMsg, closeCalls>>

\* Headset.close: closing = True, then every close hook, in order.
DoClose ==
    /\ closing' = TRUE
    /\ closeCalls' = closeCalls + 1
    /\ LET c == RunCloseHooks(on_close, Ctx(chatmix))
       IN  /\ chatmix' = c.cm
           /\ out' = c.ev
           /\ err' = c.err
    /\ lastOp' = "close"
    /\ lastArg' = <<>>
    /\ ret' = "None"
    /\ invoked' = on_close
    /\ UNCHANGED <<configVars, registryVars, nCalls, nPackets,
                   sonar_icon_enabled, msg, prevMsg>>

\* self.close(..., ...) at the end of listen.
ListenClose ==
    /\ pc = "listen_close"
    /\ pc' = "finally"
    /\ DoClose
    /\ UNCHANGED nSignals

\* main's try/finally, mutated: no finally clause, the process just ends.
FinallyWithoutClose ==
    /\ pc = "finally"
    /\ pc' = "exited"
    /\ UNCHANGED <<configVars, registryVars, counters, closing,
                   sonar_icon_enabled, chatmix, msg, prevMsg, lastOp, lastArg,
                   ret, invoked, out, err, closeCalls>>

\* main's finally: nova.close(..., ...); then the process ends.
Finally ==
    /\ pc = "finally"
    /\ pc' = "exited"
    /\ DoClose
    /\ UNCHANGED nSignals

\* SIGINT or SIGTERM: the handler main installed, nova.close, runs between
\* two steps of the main program.
Signal ==
    /\ pc \in {"setup", "loop", "read", "dispatch", "listen_close", "finally"}
    /\ nSignals < MaxSignals
    /\ nSignals' = nSignals + 1
    /\ DoClose
    /\ UNCHANGED pc

\* Environment: a virtual sink's process exits, after terminate() or because
\* the audio stack killed or restarted it.
SinkExit(s) ==
    /\ IsOpen(chatmix.procs[s])
    /\ chatmix' = [chatmix EXCEPT !.procs[s] = "dead"]
    /\ lastOp' = "env"
    /\ UNCHANGED <<configVars, registryVars, counters, pc, closing,
                   sonar_icon_enabled, msg, prevMsg, lastArg, ret, invoked,
                   out, err, closeCalls>>

Next ==
    \/ Open
    \/ \E k \in Kinds, a \in {0, 1} : AttemptAction(k, a)
    \/ StartListen
    \/ LoopTest
    \/ \E m \in Packets : ReadPacket(m)
    \/ ReadTimeout
    \/ ReadError
    \/ Dispatch
    \/ ListenClose
    \/ Finally
    \/ Signal
    \/ \E s \in Sinks : SinkExit(s)

Spec == Init /\ [][Next]_vars

----------------------------------------------------------------------------
(* The registry alone: _add_feature applied to arbitrary features *)

\* Inbound endpoints a feature can be constructed on: nova-chatmix.py has
\* the one HID interface, nova.py any endpoint of the device.
Endpoints(v) == IF v = "hid" THEN {"hid"} ELSE {"ep_4_in", "ep_other_in"}

\* Features as their constructors build them: any kind, on any endpoint,
\* with or without an outbound side, listening on the opcode given.
Catalog(v) ==
    { MkFeature(k, e, o, op) :
        k \in Kinds, e \in Endpoints(v), o \in BOOLEAN,
        op \in {OPT_CHATMIX, OPT_VOLUME} }

\* A Headset whose __init__ has run and which has no feature yet.
InitAttach ==
    /\ variant \in Variants
    /\ devModel = "Headset"
    /\ pactlOut = PactlWith
    /\ pc = "attach"
    /\ attached = <<>>
    /\ actions = EmptyRegistry.actions
    /\ listeners = EmptyRegistry.listeners
    /\ on_open = EmptyRegistry.on_open
    /\ on_close = EmptyRegistry.on_close
    /\ closing = FALSE
    /\ sonar_icon_enabled = FALSE
    /\ chatmix = NewChatMix(FALSE)
    /\ msg = <<>>
    /\ prevMsg = <<>>
    /\ lastOp = "init"
    /\ lastArg = <<>>
    /\ ret = "None"
    /\ invoked = <<>>
    /\ out = <<>>
    /\ err = "none"
    /\ nCalls = 0
    /\ nPackets = 0
    /\ nSignals = 0
    /\ closeCalls = 0

\* self._add_feature(f)
Attach(f) ==
    /\ pc = "attach"
    /\ Len(attached) < MaxFeatures
    /\ attached' = Append(attached, f)
    /\ LET r == AddFeature(variant, Registry, f)
       IN  /\ listeners' = r.listeners
           /\ actions' = r.actions
           /\ on_open' = r.on_open
           /\ on_close' = r.on_close
    /\ lastOp' = "_add_feature"
    /\ UNCHANGED <<configVars, counters, pc, closing, sonar_icon_enabled,
                   chatmix, msg, prevMsg, lastArg, ret, invoked, out, err,
                   closeCalls>>

\* listen on a headset built from the attached features: one read that returns
\* the packet m; nova.py indexes self.listeners[endpoint], so the endpoint has
\* a table. The loop body then runs as Dispatch.
AttachedRead(m) ==
    /\ pc = "attach"
    /\ attached # <<>>
    /\ variant = "usb" => ListenEp(variant) \in DOMAIN listeners
    /\ pc' = "dispatch"
    /\ msg' = m
    /\ prevMsg' = msg
    /\ UNCHANGED <<configVars, registryVars, counters, closing,
                   sonar_icon_enabled, chatmix, lastOp, lastArg, ret, invoked,
                   out, err, closeCalls>>

NextAttach ==
    \/ \E f \in Catalog(variant) : Attach(f)
    \/ \E m \in Packets : AttachedRead(m)
    \/ Dispatch

SpecAttach == InitAttach /\ [][NextAttach]_vars

----------------------------------------------------------------------------
(* The daemon with its scheduling: the main thread keeps running, so every
   step of its own that stays possible is taken; a read of nova-chatmix.py
   returns within its 1000 ms timeout, a read of nova.py (timeout -1) may
   block for as long as the device is silent. *)

ReadReturns ==
    \/ ReadTimeout
    \/ ReadError
    \/ \E m \in Packets : ReadPacket(m)

SpecLive ==
    /\ Init
    /\ [][Next]_vars
    /\ WF_vars(StartListen)
    /\ WF_vars(LoopTest)
    /\ WF_vars(variant = "hid" /\ ReadReturns)
    /\ WF_vars(Dispatch)
    /\ WF_vars(ListenClose)
    /\ WF_vars(Finally)

----------------------------------------------------------------------------
(* Properties *)

Writes(evs) == { i \in 1..Len(evs) : evs[i].type = "write" }
SetVolumeCmds(evs) == SelectSeq(evs, LAMBDA e : e.type = "set-volume")
IsAttached(kind) == \E i \in 1..Len(attached) : attached[i].kind = kind

\* C1: after the loop body has dispatched a packet read on the listened
\* endpoint, exactly the handler registered for the packet's first byte was
\* invoked (ChatMix.chatmix for 0x45 on every device, Volume.ignore for 0x25
\* and EQ.ignore for 0x31 on NovaProWireless, on_power_change for 0xB9 on
\* nova-chatmix.py's Nova5X); for any other first byte no handler was
\* invoked, nothing was done, no exception was raised and the loop was not
\* left by an exception.
C1_DispatchInvokesRegistered ==
    lastOp = "dispatch" =>
        LET o == lastArg[1]
            t == TableOf(listeners, ListenEp(variant))
            expected ==
                CASE o = OPT_CHATMIX -> "ChatMix.chatmix"
                  [] o = OPT_VOLUME /\ devModel = "NovaProWireless"
                        -> "Volume.ignore"
                  [] o = OPT_EQ /\ devModel = "NovaProWireless" -> "EQ.ignore"
                  [] o = OPT_POWER /\ devModel = "Nova5X" /\ variant = "hid"
                        -> "Nova5X.on_power_change"
                  [] OTHER -> "None"
        IN  /\ (o \in DOMAIN t) = (expected # "None")
            /\ IF o \in DOMAIN t
               THEN invoked = <<t[o]>> /\ t[o] = expected
               ELSE /\ invoked = <<>>
                    /\ out = <<>>
                    /\ err = "none"
                    /\ pc \in {"loop", "read", "dispatch", "listen_close"}

\* C1 witness: a registered packet was dispatched to its handler right after
\* a packet of an unregistered opcode had been read and dropped.
C1_Witness ==
    /\ lastOp = "dispatch"
    /\ prevMsg = <<OPT_EQ_PRESET, 69, 1>>
    /\ lastArg[1] = OPT_CHATMIX
    /\ invoked = <<"ChatMix.chatmix">>

\* C2 (the claim as stated): whenever the handler of a ChatMix report
\* [0x45, g, c] has run to its end, both virtual sinks are running and the
\* volume commands issued are exactly set-volume(g) for the game sink and
\* set-volume(c) for the chat sink.
C2_SinksRunningWhenVolumeApplied ==
    (lastOp = "dispatch" /\ lastArg[1] = OPT_CHATMIX /\ err = "none") =>
        /\ \A s \in Sinks : chatmix.procs[s] = "running"
        /\ SetVolumeCmds(out) =
              << SinkEvent("set-volume", "game", lastArg[2]),
                 SinkEvent("set-volume", "chat", lastArg[3]) >>

\* C3 (the claim as stated): when close() has just completed, no virtual
\* sink process is running.
C3_NoSinkRunningAfterClose ==
    lastOp = "close" => \A s \in Sinks : chatmix.procs[s] # "running"

\* C4: a close() that directly follows a close() (nothing but the loop's own
\* test and read in between) writes nothing to the device, stops no sink and
\* changes no state of the registry or of its features.
C4_SecondCloseIsNoOp ==
    [][ (lastOp = "close" /\ closeCalls' = closeCalls + 1) =>
            /\ out' = <<>>
            /\ err' = "none"
            /\ chatmix' = chatmix
            /\ sonar_icon_enabled' = sonar_icon_enabled
            /\ closing' = closing
            /\ UNCHANGED registryVars ]_vars

\* C4 witness: a second close() has just run after a close() that disabled
\* the ChatMix controls and terminated the sinks.
C4_Witness ==
    /\ lastOp = "close"
    /\ closeCalls = 2
    /\ out = <<>>
    /\ chatmix.hasOut
    /\ ~chatmix.chatmix_controls_enabled
    /\ \A s \in Sinks : chatmix.procs[s] = "terminating"

\* C5 (the claim as stated): when the process has ended, the close sequence
\* has been executed exactly once.
C5_CloseExactlyOnce ==
    pc = "exited" => closeCalls = 1

\* C5 (amended): when the process has ended after the dispatch loop was
\* entered or main's try block was left, the closing flag is set and the
\* close sequence has been executed at least once, and at most once per
\* signal, once at the end of listen and once in main's finally.
C5_CloseAtLeastOnce ==
    pc = "exited" =>
        /\ closing
        /\ closeCalls >= 1
        /\ closeCalls <= nSignals + 2

\* C5 witness: the process has ended after a signal stopped the loop, and
\* close() ran three times.
C5_Witness ==
    pc = "exited" /\ nSignals = 1 /\ closeCalls = 3 /\ nPackets > 0

\* C6 (the claim as stated): when on_power_change has handled [0xB9, 3] and
\* the packet before it was [0xB9, 2], both virtual sinks are running.
C6_PowerOffOnRestartsSinks ==
    ( /\ lastOp = "dispatch"
      /\ invoked = <<"Nova5X.on_power_change">>
      /\ lastArg = <<OPT_POWER, POWER_ON, 0>>
      /\ prevMsg = <<OPT_POWER, POWER_OFF, 0>>
      /\ err = "none" ) =>
        \A s \in Sinks : chatmix.procs[s] = "running"

\* C7 (the claim as stated): every control write has the length of the
\* packet size, begins with the direction byte, the opcode and the payload,
\* and every byte after them is 0.
C7_WritePaddedWithZero ==
    \A i \in Writes(out) :
        /\ Len(out[i].data) = PACKET_SIZE
        /\ out[i].data[1] = TX
        /\ \A j \in 4..PACKET_SIZE : out[i].data[j] = 0

\* C8: the enabled flag of ChatMix (and of SonarIcon) changes only in a step
\* that writes the feature's enable opcode with the flag's new value to the
\* device; set_chatmix_controls(on) through attempt_action sends a write
\* exactly if the feature has an outbound side, then the flag is `on`, and
\* otherwise nothing is written, nothing is raised and the flag is kept.
C8_FlagFollowsWrite ==
    [][ /\ (chatmix'.chatmix_controls_enabled # chatmix.chatmix_controls_enabled)
            => \E i \in Writes(out') :
                  /\ out'[i].data[2] = OPT_CHATMIX_ENABLE
                  /\ out'[i].data[3] = IntOf(chatmix'.chatmix_controls_enabled)
        /\ (sonar_icon_enabled' # sonar_icon_enabled)
            => \E i \in Writes(out') :
                  /\ out'[i].data[2] = OPT_SONAR_ICON
                  /\ out'[i].data[3] = IntOf(sonar_icon_enabled')
        /\ (nCalls' = nCalls + 1 /\ lastArg'[1] = "ChatMix" /\ ret' = "True")
            => /\ (Writes(out') # {}) = chatmix.hasOut
               /\ err' = "none"
               /\ IF Writes(out') # {}
                  THEN chatmix'.chatmix_controls_enabled = (lastArg'[2] = 1)
                  ELSE /\ out' = <<>>
                       /\ chatmix' = chatmix ]_vars

\* C8 witness: set_chatmix_controls(True) has run on a ChatMix without an
\* outbound side: nothing written, flag still False.
C8_Witness ==
    /\ lastOp = "attempt_action"
    /\ lastArg = <<"ChatMix", 1>>
    /\ ret = "True"
    /\ ~chatmix.hasOut
    /\ out = <<>>
    /\ ~chatmix.chatmix_controls_enabled

\* C9 (the claim as stated): attempt_action returns False and invokes
\* nothing for a kind that was never attached, and returns True and invokes
\* the method for an attached kind.
C9_PresentIffAttached ==
    lastOp = "attempt_action" =>
        IF IsAttached(lastArg[1])
        THEN ret = "True" /\ invoked = <<MethodOf(lastArg[1])>>
        ELSE ret = "False" /\ invoked = <<>> /\ out = <<>>

\* C9 (amended): attempt_action returns False, invokes nothing, writes
\* nothing and changes no state for a kind that is not recorded in the
\* action table: a kind never attached or, in nova.py, a kind attached
\* without an outbound endpoint; for a recorded kind it invokes the method
\* and returns True.
C9_PresentIffRecorded ==
    [][ (nCalls' = nCalls + 1) =>
          LET kind == lastArg'[1]
              recorded == \E i \in 1..Len(attached) :
                              /\ attached[i].kind = kind
                              /\ (variant = "hid" \/ attached[i].hasOut)
          IN  IF recorded
              THEN ret' = "True" /\ invoked' = <<MethodOf(kind)>>
              ELSE /\ ret' = "False"
                   /\ invoked' = <<>>
                   /\ out' = <<>>
                   /\ err' = "none"
                   /\ chatmix' = chatmix
                   /\ sonar_icon_enabled' = sonar_icon_enabled
                   /\ closing' = closing
                   /\ UNCHANGED registryVars ]_vars

\* C9 witness: attempt_action(ChatMix, ...) has returned False on nova.py's
\* Nova5X, where ChatMix is attached without an outbound endpoint.
C9_Witness ==
    /\ lastOp = "attempt_action"
    /\ lastArg[1] = "ChatMix"
    /\ IsAttached("ChatMix")
    /\ ret = "False"
    /\ invoked = <<>>
    /\ out = <<>>

Reverse(sq) == [i \in 1..Len(sq) |-> sq[Len(sq) + 1 - i]]

PairwiseDisjoint(fs) ==
    \A i, j \in 1..Len(fs) :
        (i < j /\ fs[i].ep = fs[j].ep) =>
            (DOMAIN fs[i].codes) \cap (DOMAIN fs[j].codes) = {}

\* C10: when the attached features have pairwise disjoint opcode sets on
\* each endpoint, the dispatch table is the one the reverse attach order
\* builds, has a table for exactly the endpoints of the attached features,
\* and holds every opcode entry of every attached feature and no other.
C10_MergeAdditiveAnyOrder ==
    PairwiseDisjoint(attached) =>
        /\ listeners =
              AddFeatures(variant, EmptyRegistry, Reverse(attached)).listeners
        /\ DOMAIN listeners = { attached[i].ep : i \in 1..Len(attached) }
        /\ \A i \in 1..Len(attached) :
              \A o \in DOMAIN attached[i].codes :
                  listeners[attached[i].ep][o] = attached[i].codes[o]
        /\ \A e \in DOMAIN listeners :
              DOMAIN listeners[e] =
                 UNION { DOMAIN attached[i].codes :
                           i \in { j \in 1..Len(attached) : attached[j].ep = e } }

\* C10 witness: two features of different kinds and different opcodes have
\* been attached to the same endpoint, and both entries are in its table.
C10_Witness ==
    /\ Len(attached) = 2
    /\ attached[1].kind = "Volume"
    /\ attached[2].kind = "ChatMix"
    /\ attached[1].ep = attached[2].ep
    /\ DOMAIN attached[1].codes = {OPT_VOLUME}
    /\ DOMAIN attached[2].codes = {OPT_CHATMIX}
    /\ DOMAIN listeners[attached[1].ep] = {OPT_VOLUME, OPT_CHATMIX}

\* A step that runs feature code which may resolve the real sink or start
\* sinks: the dispatch of a packet, or the constructor with its open hooks.
HandlerStep ==
    \/ pc = "dispatch" /\ pc' # "dispatch"
    \/ pc = "open" /\ pc' # "open"

HasEvent(evs, t, s) ==
    \E i \in 1..Len(evs) : evs[i].type = t /\ evs[i].sink = s

\* C11: starting with no sink name, the sink-listing query is run only by a
\* call made while the name is still unset; once a name is stored no later
\* step changes it, and no later call runs the query again.
C11_QueryOnlyWhileUnresolved ==
    [][ chatmix.pw_original_sink # "None" =>
          /\ chatmix'.pw_original_sink = chatmix.pw_original_sink
          /\ HandlerStep => ~HasEvent(out', "query", "-") ]_vars

\* A second call of _start_virtual_sinks (a sink had died) that started a sink
\* from the cached name, without a query.
C11_Witness ==
    /\ lastOp = "dispatch"
    /\ invoked = <<"ChatMix.chatmix">>
    /\ chatmix.pw_original_sink = SinkName
    /\ \E s \in Sinks : HasEvent(out, "spawn", s)
    /\ ~HasEvent(out, "query", "-")
    /\ err = "none"

\* C12: after close(), the icon flag and the controls flag are both false,
\* and a flag that was true has had its disable write sent.
C12_FlagsRestoredOnClose ==
    lastOp = "close" =>
        /\ ~sonar_icon_enabled
        /\ ~chatmix.chatmix_controls_enabled

\* C13: a failed sink resolution does not end the daemon: after the handler
\* (or the open hook) that failed, the program is still in its dispatch loop.
C13_ResolveFailureKeepsRunning ==
    (lastOp \in {"dispatch", "open"} /\ err # "none") =>
        pc \in {"setup", "loop", "read", "dispatch"}

\* C14: a read that fails for good leaves the loop into main's finally
\* clause, and the process leaves that clause only through close(): the
\* closing flag is set and every close hook has run (enabled controls get
\* their disable write and the flag cleared) before the process has exited.
C14_ReadErrorRunsClosePath ==
    [][ /\ (pc = "read" /\ lastOp' = "read_error") => pc' = "finally"
        /\ (pc = "finally" /\ pc' = "exited") =>
              /\ closing'
              /\ closeCalls' = closeCalls + 1
              /\ invoked' = on_close
              /\ chatmix.chatmix_controls_enabled =>
                    /\ Writes(out') # {}
                    /\ ~chatmix'.chatmix_controls_enabled ]_vars

\* The process has exited after a failed read (no signal, no failing
\* handler), and its one close() disabled the controls and stopped the sinks.
C14_Witness ==
    /\ pc = "exited"
    /\ pactlOut = PactlWith
    /\ nSignals = 0
    /\ closeCalls = 1
    /\ closing
    /\ lastOp = "close"
    /\ invoked = <<"ChatMix">>
    /\ Writes(out) # {}
    /\ \E s \in Sinks : HasEvent(out, "terminate", s)

\* C15: once close() has set the closing flag, no step starts a virtual sink
\* process.
C15_NoSinkStartedAfterClosing ==
    closing => \A s \in Sinks : ~HasEvent(out, "spawn", s)

\* C16: ChatMix's close hook with the controls enabled issues the disable
\* write first: the events of a close() that does anything are that write
\* followed by the stops of the sinks, and no stop precedes a write.
C16_DisableBeforeSinkStop ==
    (lastOp = "close" /\ out # <<>>) =>
        /\ out[1] = WriteEvent(CreateMsgData(<<TX, OPT_CHATMIX_ENABLE, 0>>,
                                             PACKET_SIZE))
        /\ \A i \in 2..Len(out) : out[i].type = "terminate"
        /\ \A i \in Writes(out) :
              \A j \in 1..Len(out) : out[j].type = "terminate" => i < j

\* A close() that sent the disable write and then stopped a running sink.
C16_Witness ==
    /\ lastOp = "close"
    /\ Len(out) >= 2
    /\ out[1].type = "write"
    /\ out[2].type = "terminate"
    /\ ~chatmix.chatmix_controls_enabled

LoopExited == pc \in {"finally", "exited"}

\* C17: once the closing flag is set no further read is started (only a read
\* already in flight completes), and with the bounded read timeout of
\* nova-chatmix.py the loop is eventually left, whether or not the device
\* sends another packet.
C17_LoopExitsAfterClosing ==
    /\ [][ (closing /\ pc # "read") => pc' # "read" ]_vars
    /\ (closing /\ variant = "hid") ~> LoopExited

\* The flag was set while a read was in flight, the device never sent a
\* packet, the read timed out and the loop was left.
C17_Witness ==
    /\ variant = "hid"
    /\ closing
    /\ nPackets = 0
    /\ lastOp = "timeout"
    /\ pc = "listen_close"

\* _start_virtual_sinks has run to its end in this step.
StartedSinks ==
    /\ HandlerStep
    /\ err' = "none"
    /\ \/ pc = "open" /\ on_open # <<>>
       \/ /\ pc = "dispatch"
          /\ invoked' = <<"Nova5X.on_power_change">>
          /\ msg[2] = POWER_ON
       \/ pc = "dispatch" /\ variant = "hid" /\ invoked' = <<"ChatMix.chatmix">>

\* C18: a sink counts as running while its process is alive (handle set and
\* not exited). A step starts a process only for a sink that is not running,
\* a completed _start_virtual_sinks leaves every sink that was not running
\* with a new process, and no virtual sink ever has a second live process.
C18_OneProcessPerSink ==
    [][ /\ \A s \in Sinks :
              (HandlerStep /\ HasEvent(out', "spawn", s)) =>
                  ~IsOpen(chatmix.procs[s])
        /\ StartedSinks =>
              \A s \in Sinks :
                  ~IsOpen(chatmix.procs[s]) =>
                      /\ HasEvent(out', "spawn", s)
                      /\ chatmix'.procs[s] = "running"
        /\ \A s \in Sinks : chatmix'.stray[s] = 0 ]_vars

\* One sink had died while the other kept running: the handler started the
\* dead one only.
C18_Witness ==
    /\ lastOp = "dispatch"
    /\ err = "none"
    /\ \E s, t \in Sinks :
          /\ s # t
          /\ HasEvent(out, "spawn", s)
          /\ ~HasEvent(out, "spawn", t)
          /\ chatmix.procs[s] = "running"
          /\ chatmix.procs[t] = "running"

\* The attached features, by position, that claim opcode o on endpoint e.
Claimants(e, o) ==
    { i \in 1..Len(attached) :
         attached[i].ep = e /\ o \in DOMAIN attached[i].codes }

Last(S) == CHOOSE i \in S : \A j \in S : j <= i

\* C19: no attach is rejected, and a packet invokes exactly one handler, that
\* of the feature attached last among those claiming the packet's opcode on
\* the endpoint read (none only if no feature claims it); so when two features
\* claim the same opcode the later one alone is invoked.
C19_LastAttachedWins ==
    /\ \A e \in Endpoints(variant), o \in {OPT_CHATMIX, OPT_VOLUME} :
          Claimants(e, o) # {} =>
              /\ e \in DOMAIN listeners
              /\ o \in DOMAIN listeners[e]
              /\ listeners[e][o] = attached[Last(Claimants(e, o))].codes[o]
    /\ lastOp = "dispatch" =>
          LET cl == Claimants(ListenEp(variant), msg[1])
          IN  invoked = IF cl = {} THEN <<>>
                        ELSE <<attached[Last(cl)].codes[msg[1]]>>

\* Two features of different kinds on the endpoint read claim the opcode of
\* the packet, and the handler of the second was invoked.
C19_Witness ==
    /\ lastOp = "dispatch"
    /\ Len(attached) = 2
    /\ attached[1].ep = ListenEp(variant)
    /\ attached[2].ep = ListenEp(variant)
    /\ msg[1] \in DOMAIN attached[1].codes
    /\ msg[1] \in DOMAIN attached[2].codes
    /\ attached[1].codes[msg[1]] # attached[2].codes[msg[1]]
    /\ invoked = <<attached[2].codes[msg[1]]>>

\* C20: a read that times out stays in the loop: no handler is invoked, no
\* command or write is issued, nothing is raised, the closing flag, the
\* feature state, the sink state and the registry are unchanged, close() is
\* not called, and with the flag clear the next step of the loop is a read.
C20_TimeoutRecoveredInLoop ==
    [][ /\ (pc = "read" /\ pc' \notin {"read", "dispatch"}
                         /\ lastOp' = "timeout") =>
              /\ pc' = "loop"
              /\ invoked' = <<>>
              /\ out' = <<>>
              /\ err' = "none"
              /\ closing' = closing
              /\ closeCalls' = closeCalls
              /\ chatmix' = chatmix
              /\ sonar_icon_enabled' = sonar_icon_enabled
              /\ UNCHANGED registryVars
        /\ (pc = "loop" /\ lastOp = "timeout" /\ ~closing /\ pc' # pc) =>
              pc' = "read" ]_vars

\* After a timeout, with the controls enabled and both sinks running, the
\* loop is in its next read.
C20_Witness ==
    /\ pc = "read"
    /\ lastOp = "timeout"
    /\ ~closing
    /\ closeCalls = 0
    /\ chatmix.chatmix_controls_enabled
    /\ \A s \in Sinks : chatmix.procs[s] = "running"

\* C21: the dispatch of a power-state packet whose value is neither 2 nor 3
\* starts no sink, stops no sink, sends no write (it issues no command at
\* all), raises nothing, and leaves the sink name, the sink processes and
\* the enabled flags as they were.
C21_OtherPowerValueIgnored ==
    [][ ( /\ pc = "dispatch"
          /\ pc' # "dispatch"
          /\ msg[1] = OPT_POWER
          /\ msg[2] \notin {POWER_OFF, POWER_ON} ) =>
            /\ out' = <<>>
            /\ err' = "none"
            /\ pc' = "loop"
            /\ chatmix' = chatmix
            /\ sonar_icon_enabled' = sonar_icon_enabled ]_vars

\* on_power_change was called with a value other than 2 and 3 while the sink
\* name was resolved and a sink was down: nothing was started or stopped.
C21_Witness ==
    /\ lastOp = "dispatch"
    /\ invoked = <<"Nova5X.on_power_change">>
    /\ lastArg[1] = OPT_POWER
    /\ lastArg[2] \notin {POWER_OFF, POWER_ON}
    /\ out = <<>>
    /\ chatmix.pw_original_sink = SinkName
    /\ \E s \in Sinks : ~IsOpen(chatmix.procs[s])

====
